---- MODULE Spec2Model ----
(***************************************************************************)
(* Model of the tap13 parser (package tap13): Parse, Results.IsPassing and *)
(* Results.String.  A Go string is a sequence of one-character strings, so *)
(* that the regular expressions and the numeric conversions of the parser  *)
(* are computed character by character as the code computes them.          *)
(***************************************************************************)
EXTENDS Integers, Sequences, FiniteSets, TLC

VARIABLES lines, i, pc, state, foundTestPlan, foundAllTests, currentTest,
          results, output, peer

vars == <<lines, i, pc, state, foundTestPlan, foundAllTests, currentTest,
          results, output, peer>>

(***************************************************************************)
(* Bounds of the model.                                                    *)
(***************************************************************************)
\* Longest input (number of lines) handed to Parse.
MaxLen == 4

\* Largest counter value of a Results drawn directly (SpecVerdict).
MaxCount == 2

\* Longest input handed to a second, concurrent invocation of Parse.
MaxPeerLen == 2

(***************************************************************************)
(* Characters and strings.                                                 *)
(***************************************************************************)
DigitChars == <<"0", "1", "2", "3", "4", "5", "6", "7", "8", "9">>

LowerChars == <<"a", "b", "c", "d", "e", "f", "g", "h", "i", "j", "k", "l", "m",
                "n", "o", "p", "q", "r", "s", "t", "u", "v", "w", "x", "y", "z">>

UpperChars == <<"A", "B", "C", "D", "E", "F", "G", "H", "I", "J", "K", "L", "M",
                "N", "O", "P", "Q", "R", "S", "T", "U", "V", "W", "X", "Y", "Z">>

Range(s) == {s[k] : k \in 1..Len(s)}

\* \d of the regexp package: ASCII digits.
IsDigit(c) == c \in Range(DigitChars)

\* \w of the regexp package: [0-9A-Za-z_].
IsWord(c) == c \in Range(DigitChars) \cup Range(LowerChars) \cup Range(UpperChars) \cup {"_"}

\* \s of the regexp package: [\t\n\f\r ].
IsSpace(c) == c \in {" ", "\t", "\n", "\f", "\r"}

DigitVal(c) == CHOOSE d \in 0..9 : DigitChars[d + 1] = c

\* The simple case folding strings.EqualFold applies to an ASCII letter.
Fold(c) ==
    IF c \in Range(UpperChars)
    THEN LowerChars[CHOOSE k \in 1..26 : UpperChars[k] = c]
    ELSE c

Drop(s, n) == SubSeq(s, n + 1, Len(s))

IsPrefix(p, s) == Len(p) <= Len(s) /\ SubSeq(s, 1, Len(p)) = p

\* Number of leading characters of s, from index k on, that satisfy the class.
RECURSIVE SpanDigits(_, _)
SpanDigits(s, k) ==
    IF k <= Len(s) /\ IsDigit(s[k]) THEN 1 + SpanDigits(s, k + 1) ELSE 0

RECURSIVE SpanSpace(_, _)
SpanSpace(s, k) ==
    IF k <= Len(s) /\ IsSpace(s[k]) THEN 1 + SpanSpace(s, k + 1) ELSE 0

RECURSIVE SpanWord(_, _)
SpanWord(s, k) ==
    IF k <= Len(s) /\ IsWord(s[k]) THEN 1 + SpanWord(s, k + 1) ELSE 0

RECURSIVE SpanNotHash(_, _)
SpanNotHash(s, k) ==
    IF k <= Len(s) /\ s[k] # "#" THEN 1 + SpanNotHash(s, k + 1) ELSE 0

RECURSIVE TrailingSpace(_)
TrailingSpace(s) ==
    IF Len(s) > 0 /\ IsSpace(s[Len(s)])
    THEN 1 + TrailingSpace(SubSeq(s, 1, Len(s) - 1))
    ELSE 0

\* strings.TrimSpace
TrimSpace(s) ==
    LET lead == SpanSpace(s, 1)
        rest == Drop(s, lead)
    IN  SubSeq(rest, 1, Len(rest) - TrailingSpace(rest))

\* strings.EqualFold
EqualFold(s, t) ==
    /\ Len(s) = Len(t)
    /\ \A k \in 1..Len(s) : Fold(s[k]) = Fold(t[k])

(***************************************************************************)
(* strconv.Atoi and the %d verb of fmt.Sprintf.                            *)
(***************************************************************************)
\* Largest value of the Go type int (the 32-bit build; a 64-bit build
\* behaves alike with 2^63 - 1).
MaxInt == 2147483647

RECURSIVE AtoiFrom(_, _, _)
AtoiFrom(s, k, acc) ==
    IF k > Len(s) THEN [val |-> acc, err |-> FALSE]
    ELSE IF ~IsDigit(s[k]) THEN [val |-> 0, err |-> TRUE]
    ELSE LET d == DigitVal(s[k])
         IN  IF acc > (MaxInt - d) \div 10
             THEN [val |-> MaxInt, err |-> TRUE]
             ELSE AtoiFrom(s, k + 1, acc * 10 + d)

\* strconv.Atoi on an unsigned digit string: the value and whether err # nil.
\* A syntax error yields 0, a range error yields the largest int.
Atoi(s) ==
    IF Len(s) = 0 THEN [val |-> 0, err |-> TRUE] ELSE AtoiFrom(s, 1, 0)

RECURSIVE Itoa(_)
Itoa(n) ==
    IF n < 0 THEN <<"-">> \o Itoa(0 - n)
    ELSE IF n < 10 THEN <<DigitChars[n + 1]>>
    ELSE Itoa(n \div 10) \o <<DigitChars[(n % 10) + 1]>>

(***************************************************************************)
(* The line classifiers: the package-level regular expressions.  A match   *)
(* is [ok |-> TRUE, sub |-> the captured groups], sub[k] being element k   *)
(* of the slice FindStringSubmatch returns; NoMatch stands for nil.        *)
(***************************************************************************)
NoMatch == [ok |-> FALSE, sub |-> <<>>]

Match(groups) == [ok |-> TRUE, sub |-> groups]

S_TapVersion == <<"T", "A", "P", " ", "v", "e", "r", "s", "i", "o", "n", " ">>

S_BailOut == <<"B", "a", "i", "l", " ", "o", "u", "t", "!">>

S_Not == <<"n", "o", "t", " ">>

S_Ok == <<"o", "k">>

S_DotDot == <<".", ".">>

S_YamlStart == <<"-", "-", "-">>

S_YamlStop == <<".", ".", ".">>

S_Skip == <<"s", "k", "i", "p">>

S_Todo == <<"t", "o", "d", "o">>

\* versionLine = ^TAP version (\d+)
versionLine(line) ==
    LET n == SpanDigits(line, Len(S_TapVersion) + 1)
    IN  IF IsPrefix(S_TapVersion, line) /\ n > 0
        THEN Match(<<SubSeq(line, Len(S_TapVersion) + 1, Len(S_TapVersion) + n)>>)
        ELSE NoMatch

\* bailOutLine = ^Bail out!\s*(\S.*)?$
bailOutLine(line) ==
    IF IsPrefix(S_BailOut, line)
    THEN LET ws == SpanSpace(line, Len(S_BailOut) + 1)
         IN  Match(<<Drop(line, Len(S_BailOut) + ws)>>)
    ELSE NoMatch

\* testLine = ^(not )?ok\b(.*)
testLine(line) ==
    LET neg == IsPrefix(S_Not, line)
        off == IF neg THEN Len(S_Not) ELSE 0
        rest == Drop(line, off)
    IN  IF /\ IsPrefix(S_Ok, rest)
           /\ (Len(rest) = Len(S_Ok) \/ ~IsWord(rest[Len(S_Ok) + 1]))
        THEN Match(<<IF neg THEN S_Not ELSE <<>>, Drop(rest, Len(S_Ok))>>)
        ELSE NoMatch

\* optionalTestLine = \s*(\d*)?\s*([^#]*)(#\s*((\w*)\s*.*)\s*)?
\* Unanchored, and every part may match the empty string: the match starts
\* at the first character and each greedy part takes all it can.
optionalTestLine(text) ==
    LET ws1 == SpanSpace(text, 1)
        nd == SpanDigits(text, ws1 + 1)
        ws2 == SpanSpace(text, ws1 + nd + 1)
        start2 == ws1 + nd + ws2
        n2 == SpanNotHash(text, start2 + 1)
        hash == start2 + n2 + 1
        hasHash == hash <= Len(text)
        ws3 == SpanSpace(text, hash + 1)
        g4 == Drop(text, hash + ws3)
        g5 == SubSeq(g4, 1, SpanWord(g4, 1))
    IN  Match(<<SubSeq(text, ws1 + 1, ws1 + nd),
                SubSeq(text, start2 + 1, start2 + n2),
                IF hasHash THEN Drop(text, hash - 1) ELSE <<>>,
                IF hasHash THEN g4 ELSE <<>>,
                IF hasHash THEN g5 ELSE <<>>>>)

\* testPlanDeclaration = ^\d+\.\.(\d+)$
testPlanDeclaration(line) ==
    LET n1 == SpanDigits(line, 1)
        rest == Drop(line, n1)
        n2 == SpanDigits(rest, Len(S_DotDot) + 1)
    IN  IF /\ n1 > 0
           /\ IsPrefix(S_DotDot, rest)
           /\ n2 > 0
           /\ Len(rest) = Len(S_DotDot) + n2
        THEN Match(<<Drop(rest, Len(S_DotDot))>>)
        ELSE NoMatch

\* diagnostic = \s*#(.*)$  (unanchored: the text after the first '#')
diagnostic(line) ==
    LET n == SpanNotHash(line, 1)
    IN  IF n < Len(line) THEN Match(<<Drop(line, n + 1)>>) ELSE NoMatch

\* yamlStart = ^\s*---$
yamlStart(line) == Drop(line, SpanSpace(line, 1)) = S_YamlStart

\* yamlStop = ^\s*\.\.\.$
yamlStop(line) == Drop(line, SpanSpace(line, 1)) = S_YamlStop

(***************************************************************************)
(* The data model: Test, Results and the parser states.                    *)
(***************************************************************************)
findVersionString == 0

storeTestMetadata == 1

storeYaml == 2

\* The zero value &Test{}.
NewTest ==
    [TestNumber |-> 0, Passed |-> FALSE, Failed |-> FALSE, Skipped |-> FALSE,
     Todo |-> FALSE, Description |-> <<>>, DirectiveText |-> <<>>,
     Diagnostics |-> <<>>, YamlBytes |-> <<>>]

\* The Results that Parse constructs before its loop.
NewResults(in) ==
    [ExpectedTests |-> -1, TotalTests |-> 0, PassedTests |-> 0,
     FailedTests |-> 0, SkippedTests |-> 0, TodoTests |-> 0,
     TapVersion |-> -1, BailOut |-> FALSE, BailOutReason |-> <<>>,
     Tests |-> <<>>, Lines |-> in, Explanation |-> <<>>]

\* The local variables of Parse before its loop.  currentTest is <<>> for
\* nil and <<t>> for a pointer to the Test t.
NewLocals(in) ==
    [state |-> findVersionString, foundTestPlan |-> FALSE,
     foundAllTests |-> FALSE, currentTest |-> <<>>, results |-> NewResults(in)]

(***************************************************************************)
(* Results.IsPassing and Results.String.                                   *)
(***************************************************************************)
\* IsPassing with the plan test written "> 0": a plan of zero tests is
\* taken for no plan.
IsPassing_PlanOfZero(r) ==
    IF r.TapVersion < 0 THEN FALSE
    ELSE IF r.BailOut THEN FALSE
    ELSE LET testCount == IF r.ExpectedTests > 0 THEN r.ExpectedTests
                          ELSE r.TotalTests
         IN  r.TodoTests + r.SkippedTests + r.PassedTests = testCount

\* IsPassing that compares with TotalTests whether or not a plan was given.
IsPassing_IgnoresPlan(r) ==
    IF r.TapVersion < 0 THEN FALSE
    ELSE IF r.BailOut THEN FALSE
    ELSE r.TodoTests + r.SkippedTests + r.PassedTests = r.TotalTests

IsPassing(r) ==
    IF r.TapVersion < 0 THEN FALSE
    ELSE IF r.BailOut THEN FALSE
    ELSE LET testCount == IF r.ExpectedTests >= 0 THEN r.ExpectedTests
                          ELSE r.TotalTests
         IN  r.TodoTests + r.SkippedTests + r.PassedTests = testCount

\* One line of the report: the text before the verb and the formatted
\* argument (empty when the line has no verb).
ReportLine(label, arg) == <<<<label, arg>>>>

When(cond, text) == IF cond THEN text ELSE <<>>

\* String with the guard of the 'Expected tests' line written ">= 0".
String_ExpectedFromZero(r) ==
    (IF IsPassing(r) THEN ReportLine(" Overall result: PASS", <<>>)
                     ELSE ReportLine(" Overall result: FAIL", <<>>))
    \o When(r.TotalTests = 0 \/ r.PassedTests # r.TotalTests,
            ReportLine("Total tests run: ", Itoa(r.TotalTests)))
    \o When(r.ExpectedTests >= 0 /\ r.ExpectedTests # r.TotalTests,
            ReportLine(" Expected tests: ", Itoa(r.ExpectedTests)))
    \o When(r.ExpectedTests > 0 /\ r.TotalTests < r.ExpectedTests,
            ReportLine("  Missing tests: ", Itoa(r.ExpectedTests - r.TotalTests)))
    \o When(r.PassedTests > 0,
            ReportLine("   Passed tests: ", Itoa(r.PassedTests)))
    \o When(r.FailedTests > 0,
            ReportLine("   Failed tests: ", Itoa(r.FailedTests)))
    \o When(r.SkippedTests > 0,
            ReportLine("  Skipped tests: ", Itoa(r.SkippedTests)))
    \o When(r.TodoTests > 0,
            ReportLine("     TODO tests: ", Itoa(r.TodoTests)))
    \o When(r.BailOut,
            ReportLine("     Bailed out: ",
                       IF r.BailOutReason # <<>> THEN r.BailOutReason
                       ELSE <<"(no reason given)">>))

\* Results.String: the report as the sequence of its lines.
String(r) ==
    (IF IsPassing(r) THEN ReportLine(" Overall result: PASS", <<>>)
                     ELSE ReportLine(" Overall result: FAIL", <<>>))
    \o When(r.TotalTests = 0 \/ r.PassedTests # r.TotalTests,
            ReportLine("Total tests run: ", Itoa(r.TotalTests)))
    \o When(r.ExpectedTests > 0 /\ r.ExpectedTests # r.TotalTests,
            ReportLine(" Expected tests: ", Itoa(r.ExpectedTests)))
    \o When(r.ExpectedTests > 0 /\ r.TotalTests < r.ExpectedTests,
            ReportLine("  Missing tests: ", Itoa(r.ExpectedTests - r.TotalTests)))
    \o When(r.PassedTests > 0,
            ReportLine("   Passed tests: ", Itoa(r.PassedTests)))
    \o When(r.FailedTests > 0,
            ReportLine("   Failed tests: ", Itoa(r.FailedTests)))
    \o When(r.SkippedTests > 0,
            ReportLine("  Skipped tests: ", Itoa(r.SkippedTests)))
    \o When(r.TodoTests > 0,
            ReportLine("     TODO tests: ", Itoa(r.TodoTests)))
    \o When(r.BailOut,
            ReportLine("     Bailed out: ",
                       IF r.BailOutReason # <<>> THEN r.BailOutReason
                       ELSE <<"(no reason given)">>))

(***************************************************************************)
(* Parse: the body of the loop over the lines.  Each operator maps the     *)
(* local variables s of Parse and the current line to the local variables  *)
(* after the statements it models.                                         *)
(***************************************************************************)
\* caseFindVersionString with the state change placed after the "if": the
\* parser leaves findVersionString on a line that is no version line.
caseFindVersionString_NoHeaderNeeded(s, line) ==
    LET versionMatch == versionLine(line)
        conv == Atoi(versionMatch.sub[1])
    IN  IF ~versionMatch.ok THEN [s EXCEPT !.state = storeTestMetadata]
        ELSE IF conv.err
             THEN [s EXCEPT !.results.TapVersion = conv.val]
             ELSE [s EXCEPT !.results.TapVersion = conv.val,
                            !.state = storeTestMetadata]

\* caseFindVersionString without the "continue" on a conversion error: the
\* parser leaves findVersionString on a version line that does not convert.
caseFindVersionString_LeavesOnError(s, line) ==
    LET versionMatch == versionLine(line)
        conv == Atoi(versionMatch.sub[1])
    IN  IF ~versionMatch.ok THEN s
        ELSE [s EXCEPT !.results.TapVersion = conv.val,
                       !.state = storeTestMetadata]

\* caseFindVersionString that honours a bail-out line seen before the
\* version line.
caseFindVersionString_SeesBailOut(s, line) ==
    LET versionMatch == versionLine(line)
        conv == Atoi(versionMatch.sub[1])
    IN  IF ~versionMatch.ok
        THEN (IF bailOutLine(line).ok
              THEN [s EXCEPT !.results.BailOut = TRUE] ELSE s)
        ELSE IF conv.err
             THEN [s EXCEPT !.results.TapVersion = conv.val]
             ELSE [s EXCEPT !.results.TapVersion = conv.val,
                            !.state = storeTestMetadata]

\* case findVersionString
caseFindVersionString(s, line) ==
    LET versionMatch == versionLine(line)
        conv == Atoi(versionMatch.sub[1])
    IN  IF ~versionMatch.ok THEN s
        ELSE IF conv.err
             THEN [s EXCEPT !.results.TapVersion = conv.val]
             ELSE [s EXCEPT !.results.TapVersion = conv.val,
                            !.state = storeTestMetadata]

\* storeBailOut that also ends the counting of tests.
storeBailOut_StopsCounting(s, bailOutMatch) ==
    [s EXCEPT !.results.BailOut = TRUE,
              !.results.BailOutReason = bailOutMatch.sub[1],
              !.foundAllTests = TRUE]

\* The bail-out branch of case storeTestMetadata.
storeBailOut(s, bailOutMatch) ==
    [s EXCEPT !.results.BailOut = TRUE,
              !.results.BailOutReason = bailOutMatch.sub[1]]

\* The test-plan branch of case storeTestMetadata: the local variables
\* after it, and whether it ended the iteration ("continue").
seekTestPlan(s, line) ==
    LET testPlan == testPlanDeclaration(line)
        conv == Atoi(testPlan.sub[1])
    IN  IF s.foundTestPlan \/ ~testPlan.ok THEN [s |-> s, continue |-> FALSE]
        ELSE [s |-> [s EXCEPT !.results.ExpectedTests = conv.val],
              continue |-> conv.err]

\* testNumber without the reset on error: the value Atoi returned is kept.
testNumber_KeepsAtoiValue(testNumString) ==
    IF testNumString = <<>> THEN 0
    ELSE Atoi(testNumString).val

\* testNumber giving a line without a number the value -1.
testNumber_AbsentIsMinusOne(testNumString) ==
    IF testNumString = <<>> THEN -1
    ELSE LET conv == Atoi(testNumString)
         IN  IF conv.err THEN -1 ELSE conv.val

\* The test number of a counted test line.
testNumber(testNumString) ==
    IF testNumString = <<>> THEN 0
    ELSE LET conv == Atoi(testNumString)
         IN  IF conv.err THEN -1 ELSE conv.val

\* classify comparing the directive with == instead of strings.EqualFold.
classify_CaseSensitive(directive, isFailed) ==
    IF directive = S_Skip THEN "Skipped"
    ELSE IF directive = S_Todo THEN "Todo"
    ELSE IF isFailed THEN "Failed"
    ELSE "Passed"

\* The classification of a counted test line: the counter it increments,
\* which is also the flag of the Test it sets.
classify(directive, isFailed) ==
    IF EqualFold(directive, S_Skip) THEN "Skipped"
    ELSE IF EqualFold(directive, S_Todo) THEN "Todo"
    ELSE IF isFailed THEN "Failed"
    ELSE "Passed"

\* countTest with the "else" after the skip branch missing: a skipped test
\* that is not failed is counted as passed as well.
countTest_SkipFallsThrough(r, c) ==
    LET t == [r EXCEPT !.TotalTests = @ + 1]
    IN  CASE c = "Skipped" -> [t EXCEPT !.SkippedTests = @ + 1, !.PassedTests = @ + 1]
          [] c = "Todo" -> [t EXCEPT !.TodoTests = @ + 1]
          [] c = "Failed" -> [t EXCEPT !.FailedTests = @ + 1]
          [] c = "Passed" -> [t EXCEPT !.PassedTests = @ + 1]

\* The Results after a counted test line of class c.
countTest(r, c) ==
    LET t == [r EXCEPT !.TotalTests = @ + 1]
    IN  CASE c = "Skipped" -> [t EXCEPT !.SkippedTests = @ + 1]
          [] c = "Todo" -> [t EXCEPT !.TodoTests = @ + 1]
          [] c = "Failed" -> [t EXCEPT !.FailedTests = @ + 1]
          [] c = "Passed" -> [t EXCEPT !.PassedTests = @ + 1]

\* foundAll comparing with ">=": the flag is set as soon as the count is not
\* below ExpectedTests.
foundAll_AtLeast(s, r) ==
    IF r.TotalTests >= r.ExpectedTests THEN TRUE ELSE s.foundAllTests

\* The run-cap flag after a counted test line.
foundAll(s, r) ==
    IF r.TotalTests = r.ExpectedTests THEN TRUE ELSE s.foundAllTests

\* storeTest with the run-cap test after the decoding of the line: past the
\* run-cap the Test is decoded but not counted.
storeTest_DecodesPastCap(s, testLineMatch) ==
    LET flushed == IF s.currentTest # <<>>
                   THEN Append(s.results.Tests, s.currentTest[1])
                   ELSE s.results.Tests
        optionalContentMatch == optionalTestLine(testLineMatch.sub[2])
        directive == optionalContentMatch.sub[5]
        directiveText == optionalContentMatch.sub[4]
        testNumString == optionalContentMatch.sub[1]
        description == TrimSpace(optionalContentMatch.sub[2])
        isFailed == testLineMatch.sub[1] = S_Not
        c == classify(directive, isFailed)
        test == [NewTest EXCEPT
                    !.TestNumber = testNumber(testNumString),
                    !.Description = description,
                    !.DirectiveText = IF directive # <<>> THEN directiveText ELSE <<>>,
                    !.Skipped = (c = "Skipped"),
                    !.Todo = (c = "Todo"),
                    !.Failed = (c = "Failed"),
                    !.Passed = (c = "Passed")]
        counted == countTest([s.results EXCEPT !.Tests = flushed], c)
    IN  IF s.foundAllTests
        THEN [s EXCEPT !.results.Tests = flushed, !.currentTest = <<test>>]
        ELSE [s EXCEPT !.results = counted,
                       !.currentTest = <<test>>,
                       !.foundAllTests = foundAll(s, counted)]

\* The test-line branch of case storeTestMetadata.
storeTest(s, testLineMatch) ==
    LET flushed == IF s.currentTest # <<>>
                   THEN Append(s.results.Tests, s.currentTest[1])
                   ELSE s.results.Tests
        optionalContentMatch == optionalTestLine(testLineMatch.sub[2])
        directive == optionalContentMatch.sub[5]
        directiveText == optionalContentMatch.sub[4]
        testNumString == optionalContentMatch.sub[1]
        description == TrimSpace(optionalContentMatch.sub[2])
        isFailed == testLineMatch.sub[1] = S_Not
        c == classify(directive, isFailed)
        test == [NewTest EXCEPT
                    !.TestNumber = testNumber(testNumString),
                    !.Description = description,
                    !.DirectiveText = IF directive # <<>> THEN directiveText ELSE <<>>,
                    !.Skipped = (c = "Skipped"),
                    !.Todo = (c = "Todo"),
                    !.Failed = (c = "Failed"),
                    !.Passed = (c = "Passed")]
        counted == countTest([s.results EXCEPT !.Tests = flushed], c)
    IN  IF s.foundAllTests
        THEN [s EXCEPT !.results.Tests = flushed, !.currentTest = <<NewTest>>]
        ELSE [s EXCEPT !.results = counted,
                       !.currentTest = <<test>>,
                       !.foundAllTests = foundAll(s, counted)]

\* storeDiagnostic without strings.TrimSpace.
storeDiagnostic_Untrimmed(s, line) ==
    LET diagnosticMatch == diagnostic(line)
        diagnosticLine == diagnosticMatch.sub[1]
    IN  IF ~diagnosticMatch.ok \/ diagnosticLine = <<>> THEN s
        ELSE IF s.currentTest # <<>>
             THEN [s EXCEPT !.currentTest[1].Diagnostics = Append(@, diagnosticLine)]
             ELSE [s EXCEPT !.results.Explanation = Append(@, diagnosticLine)]

\* The comment branch of case storeTestMetadata.
storeDiagnostic(s, line) ==
    LET diagnosticMatch == diagnostic(line)
        diagnosticLine == TrimSpace(diagnosticMatch.sub[1])
    IN  IF ~diagnosticMatch.ok \/ diagnosticLine = <<>> THEN s
        ELSE IF s.currentTest # <<>>
             THEN [s EXCEPT !.currentTest[1].Diagnostics = Append(@, diagnosticLine)]
             ELSE [s EXCEPT !.results.Explanation = Append(@, diagnosticLine)]

\* caseStoreTestMetadata that reads a version line met in the test stream
\* as the version of the output.
caseStoreTestMetadata_RereadsVersion(s, line) ==
    LET bailOutMatch == bailOutLine(line)
        plan == seekTestPlan(s, line)
        testLineMatch == testLine(line)
    IN  IF bailOutMatch.ok THEN storeBailOut(s, bailOutMatch)
        ELSE IF plan.continue THEN plan.s
        ELSE IF testLineMatch.ok THEN storeTest(plan.s, testLineMatch)
        ELSE IF yamlStart(line) THEN [plan.s EXCEPT !.state = storeYaml]
        ELSE storeDiagnostic(caseFindVersionString(plan.s, line), line)

\* case storeTestMetadata
caseStoreTestMetadata(s, line) ==
    LET bailOutMatch == bailOutLine(line)
        plan == seekTestPlan(s, line)
        testLineMatch == testLine(line)
    IN  IF bailOutMatch.ok THEN storeBailOut(s, bailOutMatch)
        ELSE IF plan.continue THEN plan.s
        ELSE IF testLineMatch.ok THEN storeTest(plan.s, testLineMatch)
        ELSE IF yamlStart(line) THEN [plan.s EXCEPT !.state = storeYaml]
        ELSE storeDiagnostic(plan.s, line)

\* caseStoreYaml that hands a line matching testLine to the test-stream
\* case instead of storing it.
caseStoreYaml_SeesTestLines(s, line) ==
    IF yamlStop(line) THEN [s EXCEPT !.state = storeTestMetadata]
    ELSE IF testLine(line).ok THEN caseStoreTestMetadata(s, line)
    ELSE IF s.currentTest # <<>>
         THEN [s EXCEPT !.currentTest[1].YamlBytes = (@ \o line) \o <<"\n">>]
         ELSE s

\* caseStoreYaml that stores the line with its surrounding whitespace
\* trimmed, as the comment branch does.
caseStoreYaml_Trims(s, line) ==
    IF yamlStop(line) THEN [s EXCEPT !.state = storeTestMetadata]
    ELSE IF s.currentTest # <<>>
         THEN [s EXCEPT !.currentTest[1].YamlBytes = (@ \o TrimSpace(line)) \o <<"\n">>]
         ELSE s

\* case storeYaml
caseStoreYaml(s, line) ==
    IF yamlStop(line) THEN [s EXCEPT !.state = storeTestMetadata]
    ELSE IF s.currentTest # <<>>
         THEN [s EXCEPT !.currentTest[1].YamlBytes = (@ \o line) \o <<"\n">>]
         ELSE s

\* One iteration of the loop.
loopBody(s, line) ==
    CASE s.state = findVersionString -> caseFindVersionString(s, line)
      [] s.state = storeTestMetadata -> caseStoreTestMetadata(s, line)
      [] s.state = storeYaml -> caseStoreYaml(s, line)

\* flushCurrentTest without the append after the loop: the last staged
\* test is lost.
flushCurrentTest_DropsLast(s) == s.results

\* flushCurrentTest that appends the staged test only if it was counted.
flushCurrentTest_CountedOnly(s) ==
    IF s.currentTest # <<>> /\ (\/ s.currentTest[1].Passed
                                \/ s.currentTest[1].Failed
                                \/ s.currentTest[1].Skipped
                                \/ s.currentTest[1].Todo)
    THEN [s.results EXCEPT !.Tests = Append(@, s.currentTest[1])]
    ELSE s.results

\* The statements after the loop: the staged test is appended.
flushCurrentTest(s) ==
    IF s.currentTest # <<>>
    THEN [s.results EXCEPT !.Tests = Append(@, s.currentTest[1])]
    ELSE s.results

\* Parse as a function of its input: the loop over lines[k..], then the
\* statements after it.
RECURSIVE parseFrom(_, _, _)
parseFrom(s, in, k) ==
    IF k > Len(in) THEN flushCurrentTest(s)
    ELSE parseFrom(loopBody(s, in[k]), in, k + 1)

Parse(in) == parseFrom(NewLocals(in), in, 1)

(***************************************************************************)
(* Input lines the specifications draw from.                               *)
(***************************************************************************)
L_Version == <<"T", "A", "P", " ", "v", "e", "r", "s", "i", "o", "n", " ", "1", "3">>

L_VersionOverflow == <<"T", "A", "P", " ", "v", "e", "r", "s", "i", "o", "n", " ", "9", "9", "9", "9", "9", "9", "9", "9", "9", "9">>

L_Plan1 == <<"1", ".", ".", "1">>

L_Plan2 == <<"1", ".", ".", "2">>

L_PlanOverflow == <<"1", ".", ".", "9", "9", "9", "9", "9", "9", "9", "9", "9", "9">>

L_Ok == <<"o", "k">>

L_NotOk == <<"n", "o", "t", " ", "o", "k">>

L_OkSkip == <<"o", "k", " ", "1", " ", "#", " ", "S", "K", "I", "P", " ", "l", "a", "t", "e", "r">>

L_NotOkSkip == <<"n", "o", "t", " ", "o", "k", " ", "#", " ", "S", "k", "i", "p">>

L_OkTodo == <<"o", "k", " ", "#", " ", "T", "O", "D", "O", " ", "s", "o", "o", "n">>

L_NotOkTodo == <<"n", "o", "t", " ", "o", "k", " ", "2", " ", "#", " ", "t", "o", "d", "o">>

L_OkOther == <<"o", "k", " ", "#", " ", "s", "k", "i", "p", "p", "e", "d">>

L_NotOkOther == <<"n", "o", "t", " ", "o", "k", " ", "3", " ", "s", "l", "o", "w">>

L_Bail == <<"B", "a", "i", "l", " ", "o", "u", "t", "!">>

L_BailReason == <<"B", "a", "i", "l", " ", "o", "u", "t", "!", " ", "n", "o", " ", "t", "o", "w", "e", "l">>

L_YamlStart == <<" ", " ", "-", "-", "-">>

L_YamlStop == <<" ", " ", ".", ".", ".">>

L_Comment == <<"#", " ", "n", "o", "t", "e">>

L_Text == <<"o", "k", "a", "y">>

L_YamlText == <<" ", " ", "a", ":", " ", "1">>

L_OkOverflow == <<"o", "k", " ", "9", "9", "9", "9", "9", "9", "9", "9", "9", "9", " ", "b", "i", "g">>

L_NotOkOverflow == <<"n", "o", "t", " ", "o", "k", " ", "9", "9", "9", "9", "9", "9", "9", "9", "9", "9", " ", "#", " ", "s", "k", "i", "p">>

L_CommentIndented == <<" ", " ", "#", " ", "m", "o", "r", "e", " ", " ">>

L_CommentEmpty == <<"#", " ", " ">>

L_BailSpace == <<"B", "a", "i", "l", " ", "o", "u", "t", "!", " ">>

L_BailPadded == <<"B", "a", "i", "l", " ", "o", "u", "t", "!", " ", " ", "n", "o", " ", "t", "o", "w", "e", "l", " ", " ">>

L_OkZero == <<"o", "k", " ", "0">>

L_YamlStartBare == <<"-", "-", "-">>

L_YamlStartTrailing == <<" ", " ", "-", "-", "-", " ">>

L_YamlStopTrailing == <<" ", " ", ".", ".", ".", " ">>

L_Version12 == <<"T", "A", "P", " ", "v", "e", "r", "s", "i", "o", "n", " ", "1", "2">>

\* The inputs of at most MaxLen lines over a set of lines.
Inputs(catalog) == UNION {[1..n -> catalog] : n \in 0..MaxLen}

(***************************************************************************)
(* The state machine: main calls Parse on the lines of a file and prints   *)
(* the Results.  pc is "loop" while Parse iterates, "returned" once Parse  *)
(* has returned and "done" once the report is printed; i is the position   *)
(* of the next line.  peer is the frame of a second invocation of Parse    *)
(* running in another goroutine: its input, its position, its pc and its   *)
(* local variables; its pc is "none" when there is no such invocation.     *)
(***************************************************************************)
NoPeer == [lines |-> <<>>, i |-> 1, pc |-> "none", s |-> NewLocals(<<>>)]

Locals ==
    [state |-> state, foundTestPlan |-> foundTestPlan,
     foundAllTests |-> foundAllTests, currentTest |-> currentTest,
     results |-> results]

Assign(s) ==
    /\ state' = s.state
    /\ foundTestPlan' = s.foundTestPlan
    /\ foundAllTests' = s.foundAllTests
    /\ currentTest' = s.currentTest
    /\ results' = s.results

InitOver(catalog) ==
    /\ lines \in Inputs(catalog)
    /\ i = 1
    /\ pc = "loop"
    /\ state = findVersionString
    /\ foundTestPlan = FALSE
    /\ foundAllTests = FALSE
    /\ currentTest = <<>>
    /\ results = NewResults(lines)
    /\ output = <<>>
    /\ peer = NoPeer

\* An iteration of the loop in state findVersionString.
FindVersionString ==
    /\ pc = "loop"
    /\ i <= Len(lines)
    /\ state = findVersionString
    /\ Assign(caseFindVersionString(Locals, lines[i]))
    /\ i' = i + 1
    /\ UNCHANGED <<lines, pc, output, peer>>

\* An iteration of the loop in state storeTestMetadata.
StoreTestMetadata ==
    /\ pc = "loop"
    /\ i <= Len(lines)
    /\ state = storeTestMetadata
    /\ Assign(caseStoreTestMetadata(Locals, lines[i]))
    /\ i' = i + 1
    /\ UNCHANGED <<lines, pc, output, peer>>

\* An iteration of the loop in state storeYaml.
StoreYaml ==
    /\ pc = "loop"
    /\ i <= Len(lines)
    /\ state = storeYaml
    /\ Assign(caseStoreYaml(Locals, lines[i]))
    /\ i' = i + 1
    /\ UNCHANGED <<lines, pc, output, peer>>

\* Return that waits for the end of an open data block.
Return_OutsideBlock ==
    /\ pc = "loop"
    /\ i > Len(lines)
    /\ state # storeYaml
    /\ results' = flushCurrentTest(Locals)
    /\ pc' = "returned"
    /\ UNCHANGED <<lines, i, state, foundTestPlan, foundAllTests, currentTest, output, peer>>

\* The end of the loop: the staged test is appended and Parse returns.
Return ==
    /\ pc = "loop"
    /\ i > Len(lines)
    /\ results' = flushCurrentTest(Locals)
    /\ pc' = "returned"
    /\ UNCHANGED <<lines, i, state, foundTestPlan, foundAllTests, currentTest, output, peer>>

\* main prints the Results: fmt.Println calls Results.String.
Println ==
    /\ pc = "returned"
    /\ output' = String(results)
    /\ pc' = "done"
    /\ UNCHANGED <<lines, i, state, foundTestPlan, foundAllTests, currentTest, results,
                   peer>>

Next ==
    \/ FindVersionString
    \/ StoreTestMetadata
    \/ StoreYaml
    \/ Return
    \/ Println

\* Spec: inputs of version, plan, test and data-block lines.
CountLines ==
    {L_Version, L_Plan1, L_Plan2, L_Ok, L_NotOk, L_OkSkip, L_NotOkTodo, L_YamlStart}

Init == InitOver(CountLines)

Spec == Init /\ [][Next]_vars

\* SpecVerdict: IsPassing and String applied to a Results whose fields are
\* drawn directly (Results is an exported struct).
VerdictResults ==
    {[NewResults(<<>>) EXCEPT !.TapVersion = v, !.BailOut = b,
                              !.ExpectedTests = e, !.TotalTests = t,
                              !.PassedTests = p, !.FailedTests = f,
                              !.SkippedTests = k, !.TodoTests = d] :
        v \in {-1, 0, 13}, b \in BOOLEAN, e \in -1..MaxCount,
        t \in 0..MaxCount, p \in 0..MaxCount, f \in 0..MaxCount,
        k \in 0..MaxCount, d \in 0..MaxCount}

InitVerdict ==
    /\ lines = <<>>
    /\ i = 1
    /\ pc = "returned"
    /\ state = findVersionString
    /\ foundTestPlan = FALSE
    /\ foundAllTests = FALSE
    /\ currentTest = <<>>
    /\ results \in VerdictResults
    /\ output = <<>>
    /\ peer = NoPeer

NextVerdict == Println

SpecVerdict == InitVerdict /\ [][NextVerdict]_vars

\* SpecVersion: inputs with valid and overflowing version lines.
VersionLines ==
    {L_Version, L_VersionOverflow, L_Text, L_Ok, L_Plan1, L_Bail, L_Comment,
     L_YamlStart}

InitVersion == InitOver(VersionLines)

SpecVersion == InitVersion /\ [][Next]_vars

\* SpecPlan: inputs with valid and overflowing plan lines.
PlanLines ==
    {L_Version, L_Plan1, L_Plan2, L_PlanOverflow, L_Ok, L_NotOk, L_YamlStart}

InitPlan == InitOver(PlanLines)

SpecPlan == InitPlan /\ [][Next]_vars

\* SpecDirective: inputs with test lines of every directive and prefix.
DirectiveLines ==
    {L_Version, L_Plan1, L_Ok, L_NotOkOther, L_OkSkip, L_NotOkSkip, L_OkTodo,
     L_NotOkTodo, L_OkOther, L_YamlStart}

InitDirective == InitOver(DirectiveLines)

SpecDirective == InitDirective /\ [][Next]_vars

\* SpecBail: inputs with bail-out lines among test, plan and data-block lines.
BailLines ==
    {L_Version, L_Bail, L_BailReason, L_Ok, L_NotOk, L_Plan1, L_YamlStart,
     L_YamlStop}

InitBail == InitOver(BailLines)

SpecBail == InitBail /\ [][Next]_vars

\* SpecYaml: inputs with data blocks holding lines that look like test,
\* plan, bail-out and comment lines.
YamlLines ==
    {L_Version, L_Ok, L_NotOk, L_Plan1, L_Bail, L_Comment, L_YamlStart,
     L_YamlStop, L_YamlText}

InitYaml == InitOver(YamlLines)

SpecYaml == InitYaml /\ [][Next]_vars

\* The inputs over a set of lines, and those inputs after a given prefix.
InputsAfter(prefix, catalog) ==
    Inputs(catalog) \cup {prefix \o in : in \in Inputs(catalog)}

\* SpecYamlBytes: inputs with data blocks, alone and after a version line
\* and a test line.
YamlBytesLines ==
    {L_Version, L_Ok, L_Comment, L_YamlStart, L_YamlStop, L_YamlText}

InitYamlBytes ==
    /\ lines \in InputsAfter(<<L_Version, L_Ok>>, YamlBytesLines)
    /\ i = 1
    /\ pc = "loop"
    /\ state = findVersionString
    /\ foundTestPlan = FALSE
    /\ foundAllTests = FALSE
    /\ currentTest = <<>>
    /\ results = NewResults(lines)
    /\ output = <<>>
    /\ peer = NoPeer

SpecYamlBytes == InitYamlBytes /\ [][Next]_vars

\* SpecNumber: inputs with numbered, unnumbered and overflowing test
\* lines.
NumberLines ==
    {L_Version, L_Ok, L_OkSkip, L_NotOkTodo, L_NotOkOther, L_OkOverflow,
     L_NotOkOverflow, L_YamlStart}

InitNumber == InitOver(NumberLines)

SpecNumber == InitNumber /\ [][Next]_vars

\* SpecTests: inputs with distinguishable test lines, a plan and data
\* blocks.
TestsLines ==
    {L_Version, L_Plan2, L_Ok, L_NotOkOther, L_OkSkip, L_NotOkTodo,
     L_YamlStart, L_YamlStop}

InitTests == InitOver(TestsLines)

SpecTests == InitTests /\ [][Next]_vars

\* SpecComment: inputs with comment lines before, between and after test
\* lines.
CommentLines ==
    {L_Version, L_Plan1, L_Ok, L_NotOk, L_Comment, L_CommentIndented,
     L_CommentEmpty, L_YamlStart}

InitComment == InitOver(CommentLines)

SpecComment == InitComment /\ [][Next]_vars

\* SpecReport: String applied to a Results whose fields, bail-out reason
\* included, are drawn directly.
ReportResults ==
    {[r EXCEPT !.BailOutReason = x] :
        r \in VerdictResults, x \in {<<>>, Drop(L_BailReason, Len(S_BailOut) + 1)}}

InitReport ==
    /\ lines = <<>>
    /\ i = 1
    /\ pc = "returned"
    /\ state = findVersionString
    /\ foundTestPlan = FALSE
    /\ foundAllTests = FALSE
    /\ currentTest = <<>>
    /\ results \in ReportResults
    /\ output = <<>>
    /\ peer = NoPeer

SpecReport == InitReport /\ [][NextVerdict]_vars

\* SpecBailReason: inputs with bail-out lines with no reason, with
\* whitespace only, and with a reason with and without whitespace around it.
BailReasonLines ==
    {L_Version, L_Bail, L_BailSpace, L_BailReason, L_BailPadded, L_Ok,
     L_YamlStart}

InitBailReason == InitOver(BailReasonLines)

SpecBailReason == InitBailReason /\ [][Next]_vars

\* SpecAbsentNumber: inputs with test lines without a number, with the
\* numbers 0, 1 and 2 and with an overflowing number, and no plan.
AbsentNumberLines ==
    {L_Version, L_Ok, L_NotOk, L_OkZero, L_OkSkip, L_NotOkTodo, L_OkOverflow,
     L_YamlStart}

InitAbsentNumber == InitOver(AbsentNumberLines)

SpecAbsentNumber == InitAbsentNumber /\ [][Next]_vars

\* SpecConcurrent: two invocations of Parse, each on its own input, their
\* iterations interleaved in every order.
mainVars ==
    <<lines, i, pc, state, foundTestPlan, foundAllTests, currentTest, results,
      output>>

\* peerLocals with foundAllTests a package-level variable that both
\* invocations use.
peerLocals_SharedRunCap == [peer.s EXCEPT !.foundAllTests = foundAllTests]

\* The variables an iteration of the second invocation works on: the ones
\* its own call of Parse declared.
peerLocals == peer.s

\* An iteration of the loop of the second invocation.
PeerIterate ==
    /\ peer.pc = "loop"
    /\ peer.i <= Len(peer.lines)
    /\ peer' = [peer EXCEPT !.s = loopBody(peerLocals, peer.lines[peer.i]),
                            !.i = @ + 1]
    /\ UNCHANGED mainVars

\* The end of the loop of the second invocation.
PeerReturn ==
    /\ peer.pc = "loop"
    /\ peer.i > Len(peer.lines)
    /\ peer' = [peer EXCEPT !.s.results = flushCurrentTest(peerLocals),
                            !.pc = "returned"]
    /\ UNCHANGED mainVars

ConcurrentLines == {L_Version, L_Plan1, L_Ok, L_YamlStart}

PeerLines == {L_Version, L_Ok}

PeerInputs == UNION {[1..n -> PeerLines] : n \in 0..MaxPeerLen}

InitConcurrent ==
    /\ lines \in Inputs(ConcurrentLines)
    /\ i = 1
    /\ pc = "loop"
    /\ state = findVersionString
    /\ foundTestPlan = FALSE
    /\ foundAllTests = FALSE
    /\ currentTest = <<>>
    /\ results = NewResults(lines)
    /\ output = <<>>
    /\ peer \in {[lines |-> in, i |-> 1, pc |-> "loop", s |-> NewLocals(in)] :
                    in \in PeerInputs}

NextConcurrent ==
    \/ Next
    \/ PeerIterate
    \/ PeerReturn

SpecConcurrent == InitConcurrent /\ [][NextConcurrent]_vars

\* SpecStates: inputs with valid and overflowing version lines and with
\* data-block delimiters, in any order.
StatesLines ==
    {L_Version, L_VersionOverflow, L_Ok, L_Text, L_YamlStart, L_YamlStop,
     L_YamlText}

InitStates == InitOver(StatesLines)

SpecStates == InitStates /\ [][Next]_vars

\* SpecDelimiters: inputs with data-block delimiters that are indented,
\* not indented, and followed by whitespace.
DelimiterLines ==
    {L_Version, L_Ok, L_YamlStart, L_YamlStop, L_YamlStartBare,
     L_YamlStartTrailing, L_YamlStopTrailing, L_YamlText}

InitDelimiters == InitOver(DelimiterLines)

SpecDelimiters == InitDelimiters /\ [][Next]_vars

\* SpecFirstVersion: inputs with several version lines, with different
\* numbers and with a number that overflows, inside and outside data blocks.
FirstVersionLines ==
    {L_Version, L_Version12, L_VersionOverflow, L_Ok, L_YamlStart, L_YamlStop}

InitFirstVersion == InitOver(FirstVersionLines)

SpecFirstVersion == InitFirstVersion /\ [][Next]_vars

\* SpecTermination: main runs without suspension (Parse has no I/O, no
\* lock and no channel), so a step that is possible is eventually taken.
\* Inputs include ones without a version line and ones with data blocks
\* that are never closed.
TerminationLines ==
    {L_Version, L_Ok, L_YamlStart}

\* main before it has read the file.
InitTermination ==
    /\ lines = <<>>
    /\ i = 1
    /\ pc = "start"
    /\ state = findVersionString
    /\ foundTestPlan = FALSE
    /\ foundAllTests = FALSE
    /\ currentTest = <<>>
    /\ results = NewResults(<<>>)
    /\ output = <<>>
    /\ peer = NoPeer

\* main reads the lines of the file and calls Parse on them.
ReadFile ==
    /\ pc = "start"
    /\ lines' \in Inputs(TerminationLines)
    /\ results' = NewResults(lines')
    /\ pc' = "loop"
    /\ UNCHANGED <<i, state, foundTestPlan, foundAllTests, currentTest, output,
                   peer>>

NextTermination ==
    \/ ReadFile
    \/ Next

SpecTermination ==
    InitTermination /\ [][NextTermination]_vars /\ WF_vars(NextTermination)

(***************************************************************************)
(* Properties.                                                             *)
(***************************************************************************)
\* Parse has returned its Results.
Returned == pc \in {"returned", "done"}

PassLine == <<" Overall result: PASS", <<>>>>

FailLine == <<" Overall result: FAIL", <<>>>>

OutcomeSum(r) == r.PassedTests + r.FailedTests + r.SkippedTests + r.TodoTests

\* C1: after every line processed by Parse, and in the Results it returns,
\* TotalTests is the sum of PassedTests, FailedTests, SkippedTests and
\* TodoTests.
C1_CountersAddUp == results.TotalTests = OutcomeSum(results)

\* A returned Results counting a passed, a failed and a skipped test.
C1_Witness ==
    /\ Returned
    /\ results.PassedTests > 0
    /\ results.FailedTests > 0
    /\ results.SkippedTests > 0

\* C2: in the returned Results, a recorded plan bounds the count:
\* ExpectedTests >= 0 implies TotalTests <= ExpectedTests.
C2_PlanBoundsTotal ==
    Returned /\ results.ExpectedTests >= 0
        => results.TotalTests <= results.ExpectedTests

\* C3: IsPassing is false if TapVersion < 0, otherwise false if BailOut,
\* otherwise true exactly when SkippedTests + TodoTests + PassedTests is
\* ExpectedTests (if >= 0) or TotalTests (if no plan).
C3_VerdictRule ==
    pc = "done" =>
        LET r == results
            target == IF r.ExpectedTests >= 0 THEN r.ExpectedTests ELSE r.TotalTests
        IN  /\ output[1] \in {PassLine, FailLine}
            /\ r.TapVersion < 0 => output[1] = FailLine
            /\ r.TapVersion >= 0 /\ r.BailOut => output[1] = FailLine
            /\ r.TapVersion >= 0 /\ ~r.BailOut =>
                 (output[1] = PassLine
                    <=> r.SkippedTests + r.TodoTests + r.PassedTests = target)

\* A passing verdict decided by a plan of zero tests, not by the count.
C3_Witness ==
    /\ pc = "done"
    /\ output[1] = PassLine
    /\ results.ExpectedTests = 0
    /\ results.TotalTests > 0

\* C4: a returned Results with FailedTests > 0 is not passing.
C4_FailedTestFails ==
    Returned /\ results.FailedTests > 0 => ~IsPassing(results)

\* C8: a returned Results with a plan and fewer tests counted than planned
\* is not passing.
C8_ShortfallFails ==
    Returned /\ results.ExpectedTests >= 0
             /\ results.TotalTests < results.ExpectedTests
        => ~IsPassing(results)

\* A returned Results of a planned run that is one test short, all passed.
C8_Witness ==
    /\ Returned
    /\ results.TapVersion >= 0
    /\ results.ExpectedTests = 2
    /\ results.TotalTests = 1
    /\ results.PassedTests = 1

\* C5: if no line matches the version pattern, the returned Results has
\* TapVersion = -1, TotalTests = 0 and no Test, is not passing, and the
\* report is ' Overall result: FAIL' followed by 'Total tests run: 0'.
C5_NoVersionFails ==
    pc = "done" /\ (\A k \in 1..Len(lines) : ~versionLine(lines[k]).ok) =>
        /\ results.TapVersion = -1
        /\ results.TotalTests = 0
        /\ results.Tests = <<>>
        /\ ~IsPassing(results)
        /\ output = <<FailLine, <<"Total tests run: ", <<"0">>>>>>

\* A finished run on an input without version line that has a test line
\* and a bail-out line.
C5_Witness ==
    /\ pc = "done"
    /\ \A k \in 1..Len(lines) : ~versionLine(lines[k]).ok
    /\ \E k \in 1..Len(lines) : lines[k] = L_Ok
    /\ \E k \in 1..Len(lines) : lines[k] = L_Bail

\* C6: a version line whose number overflows is skipped: while the parser
\* is in findVersionString TapVersion is still -1, and if the input ends
\* there the verdict is fail.
C6_OverflowVersionSkipped ==
    /\ state = findVersionString => results.TapVersion = -1
    /\ pc = "done" /\ state = findVersionString => output[1] = FailLine

\* An iteration of the loop in state storeTestMetadata is about to process
\* the line l.
AtStreamLine(l) ==
    /\ pc = "loop"
    /\ i <= Len(lines)
    /\ state = storeTestMetadata
    /\ lines[i] = l

\* C7: in storeTestMetadata a plan line whose count overflows leaves
\* ExpectedTests unchanged, before or after a valid plan line.
C7_OverflowPlanIgnored ==
    [][AtStreamLine(L_PlanOverflow)
          => results'.ExpectedTests = results.ExpectedTests]_vars

\* The test lines of the inputs by the outcome their directive and prefix
\* call for.
SkipTestLines == {L_OkSkip, L_NotOkSkip}

TodoTestLines == {L_OkTodo, L_NotOkTodo}

FailedTestLines == {L_NotOk, L_NotOkOther}

PassedTestLines == {L_Ok, L_OkOther}

\* The step counts one test as skipped, todo, failed and passed as given,
\* and stages a Test with exactly the given flags.
Counts(sk, td, fl, ps) ==
    /\ results'.SkippedTests = results.SkippedTests + (IF sk THEN 1 ELSE 0)
    /\ results'.TodoTests = results.TodoTests + (IF td THEN 1 ELSE 0)
    /\ results'.FailedTests = results.FailedTests + (IF fl THEN 1 ELSE 0)
    /\ results'.PassedTests = results.PassedTests + (IF ps THEN 1 ELSE 0)
    /\ Len(currentTest') = 1
    /\ currentTest'[1].Skipped = sk
    /\ currentTest'[1].Todo = td
    /\ currentTest'[1].Failed = fl
    /\ currentTest'[1].Passed = ps

\* C9: a counted test line with directive skip (todo), in any letter case
\* and with or without the 'not ' prefix, increments only SkippedTests
\* (TodoTests) and sets only Skipped (Todo); with another or no directive
\* it is Failed with the prefix and Passed without.
C9_DirectiveClassifies ==
    [][\A l \in SkipTestLines \cup TodoTestLines \cup FailedTestLines \cup PassedTestLines :
          AtStreamLine(l) /\ ~foundAllTests =>
              Counts(l \in SkipTestLines, l \in TodoTestLines,
                     l \in FailedTestLines, l \in PassedTestLines)]_vars

\* A returned Results after 'not ok # Skip' and 'not ok 2 # todo' were
\* counted: one skipped, one todo, none failed.
C9_Witness ==
    /\ Returned
    /\ Len(lines) >= 3
    /\ lines[1] = L_Version
    /\ lines[2] = L_NotOkSkip
    /\ lines[3] = L_NotOkTodo
    /\ results.SkippedTests = 1
    /\ results.TodoTests = 1
    /\ results.FailedTests = 0

NotBailOut(l) == ~bailOutLine(l).ok

Counters(r) ==
    <<r.ExpectedTests, r.TotalTests, r.PassedTests, r.FailedTests,
      r.SkippedTests, r.TodoTests>>

\* C10: a bail-out line processed in storeTestMetadata sets BailOut and
\* leaves the parser in its state; BailOut is never reset; the counters of
\* the returned Results are those of the input without its bail-out lines;
\* and a returned Results with BailOut is not passing.
C10_BailOutContinues ==
    /\ [][\A l \in {L_Bail, L_BailReason} :
             AtStreamLine(l) =>
                 /\ results'.BailOut
                 /\ state' = state
                 /\ foundAllTests' = foundAllTests
                 /\ i' = i + 1
                 /\ pc' = "loop"]_vars
    /\ [][results.BailOut => results'.BailOut]_vars
    /\ [](Returned =>
            Counters(results) = Counters(Parse(SelectSeq(lines, NotBailOut))))
    /\ [](Returned /\ results.BailOut => ~IsPassing(results))

\* A returned Results with BailOut set and both tests around the bail-out
\* line counted.
C10_Witness ==
    /\ Returned
    /\ Len(lines) >= 4
    /\ lines[1] = L_Version
    /\ lines[2] = L_Ok
    /\ lines[3] = L_Bail
    /\ lines[4] = L_Ok
    /\ results.BailOut
    /\ results.TotalTests = 2


\* An iteration of the loop in state storeYaml is about to run.
AtYamlLine ==
    /\ pc = "loop"
    /\ i <= Len(lines)
    /\ state = storeYaml

WithoutYaml(t) == [t EXCEPT !.YamlBytes = <<>>]

\* C11: while the parser is in storeYaml no line changes the Results (its
\* counters, ExpectedTests, BailOut, BailOutReason, Tests, Explanation),
\* the flags of Parse or any field of the staged test but YamlBytes; the
\* state changes only on an end delimiter.
C11_DataBlockFrame ==
    [][AtYamlLine =>
          /\ results' = results
          /\ foundAllTests' = foundAllTests
          /\ foundTestPlan' = foundTestPlan
          /\ Len(currentTest') = Len(currentTest)
          /\ currentTest # <<>> =>
                WithoutYaml(currentTest'[1]) = WithoutYaml(currentTest[1])
          /\ state' = (IF yamlStop(lines[i]) THEN storeTestMetadata ELSE storeYaml)
          /\ yamlStop(lines[i]) => currentTest' = currentTest]_vars

\* A returned Results after 'not ok' was consumed inside the data block of
\* the only test: it was stored, not counted.
C11_Witness ==
    /\ Returned
    /\ Len(lines) >= 4
    /\ lines[1] = L_Version
    /\ lines[2] = L_Ok
    /\ lines[3] = L_YamlStart
    /\ lines[4] = L_NotOk
    /\ results.TotalTests = 1
    /\ results.FailedTests = 0
    /\ results.Tests[1].YamlBytes = L_NotOk \o <<"\n">>


\* The state in which line k of the input is processed, by the transitions
\* of the parser: a valid version line opens the test stream, a data-block
\* start line processed in the stream opens a block, an end line closes it.
RECURSIVE ModeAt(_, _)
ModeAt(in, k) ==
    IF k = 1 THEN findVersionString
    ELSE LET m == ModeAt(in, k - 1)
             l == in[k - 1]
         IN  CASE m = findVersionString ->
                    IF versionLine(l).ok /\ ~Atoi(versionLine(l).sub[1]).err
                    THEN storeTestMetadata ELSE findVersionString
               [] m = storeTestMetadata ->
                    IF ~bailOutLine(l).ok /\ ~testLine(l).ok /\ yamlStart(l)
                    THEN storeYaml ELSE storeTestMetadata
               [] m = storeYaml ->
                    IF yamlStop(l) THEN storeTestMetadata ELSE storeYaml

\* Line k of the input is a test-result line processed in the test stream.
IsStreamTest(in, k) ==
    /\ ModeAt(in, k) = storeTestMetadata
    /\ ~bailOutLine(in[k]).ok
    /\ testLine(in[k]).ok

\* The number of test-result lines processed in the stream before line k:
\* the index in Tests of the test staged when line k is processed.
StagedAt(in, k) == Cardinality({j \in 1..(k - 1) : IsStreamTest(in, j)})

\* The lines consumed inside data blocks while test t was staged, each
\* followed by a newline, over lines k.. of the input.
RECURSIVE BlockBytes(_, _, _)
BlockBytes(in, t, k) ==
    IF k > Len(in) THEN <<>>
    ELSE (IF /\ ModeAt(in, k) = storeYaml
             /\ ~yamlStop(in[k])
             /\ StagedAt(in, k) = t
          THEN in[k] \o <<"\n">> ELSE <<>>)
         \o BlockBytes(in, t, k + 1)

WrittenNumber(l) ==
    CASE l = L_OkSkip -> 1
      [] l = L_NotOkTodo -> 2
      [] l = L_NotOkOther -> 3

\* The positions of the test-result lines of the input processed in the
\* test stream, in order.
RECURSIVE StreamTests(_, _)
StreamTests(in, k) ==
    IF k > Len(in) THEN <<>>
    ELSE (IF IsStreamTest(in, k) THEN <<k>> ELSE <<>>) \o StreamTests(in, k + 1)

\* C13: a counted test line whose number overflows gets TestNumber -1 and
\* is counted and classified as usual; the other tests of the input keep
\* the number written on their line.
C13_OverflowingNumber ==
    /\ [][AtStreamLine(L_OkOverflow) /\ ~foundAllTests =>
              /\ currentTest'[1].TestNumber = -1
              /\ results'.TotalTests = results.TotalTests + 1
              /\ Counts(FALSE, FALSE, FALSE, TRUE)]_vars
    /\ [][AtStreamLine(L_NotOkOverflow) /\ ~foundAllTests =>
              /\ currentTest'[1].TestNumber = -1
              /\ results'.TotalTests = results.TotalTests + 1
              /\ Counts(TRUE, FALSE, FALSE, FALSE)]_vars
    /\ [](Returned =>
            LET at == StreamTests(lines, 1)
            IN  \A t \in 1..Len(at) :
                    /\ t <= Len(results.Tests)
                    /\ lines[at[t]] \in {L_OkOverflow, L_NotOkOverflow}
                          => results.Tests[t].TestNumber = -1
                    /\ lines[at[t]] \in {L_OkSkip, L_NotOkTodo, L_NotOkOther}
                          => results.Tests[t].TestNumber = WrittenNumber(lines[at[t]]))

\* A returned Results whose first test has an overflowing number and is
\* counted as passed, followed by tests numbered 1 and 2.
C13_Witness ==
    /\ Returned
    /\ Len(results.Tests) = 3
    /\ results.Tests[1].TestNumber = -1
    /\ results.Tests[1].Passed
    /\ results.Tests[2].TestNumber = 1
    /\ results.Tests[3].TestNumber = 2
    /\ results.TotalTests = 3


\* The number of outcome flags set in a Test.
FlagsSet(t) ==
    (IF t.Passed THEN 1 ELSE 0) + (IF t.Failed THEN 1 ELSE 0)
    + (IF t.Skipped THEN 1 ELSE 0) + (IF t.Todo THEN 1 ELSE 0)

RecordOf(t, l) ==
    \/ /\ FlagsSet(t) = 0
       /\ t.TestNumber = 0
       /\ t.Description = <<>>
    \/ /\ FlagsSet(t) = 1
       /\ CASE l = L_Ok -> t.Passed /\ t.TestNumber = 0
            [] l = L_NotOkOther -> t.Failed /\ t.TestNumber = 3
            [] l = L_OkSkip -> t.Skipped /\ t.TestNumber = 1
            [] l = L_NotOkTodo -> t.Todo /\ t.TestNumber = 2

\* C15: Tests holds one record per test-result line processed in the test
\* stream, in input order: the staged Test is appended when the next test
\* line is matched and at the end of the input, and nowhere else.
C15_OneRecordPerTestLine ==
    /\ [][pc = "loop" /\ i <= Len(lines) =>
              IF IsStreamTest(lines, i)
              THEN /\ results'.Tests = results.Tests \o currentTest
                   /\ Len(currentTest') = 1
              ELSE /\ results'.Tests = results.Tests
                   /\ Len(currentTest') = Len(currentTest)]_vars
    /\ [][pc = "loop" /\ i > Len(lines) =>
              results'.Tests = results.Tests \o currentTest]_vars
    /\ [][Returned => results'.Tests = results.Tests]_vars
    /\ [](Returned =>
            LET at == StreamTests(lines, 1)
            IN  /\ Len(results.Tests) = Len(at)
                /\ \A t \in 1..Len(at) : RecordOf(results.Tests[t], lines[at[t]]))

\* A returned Results with the records of a skipped, a passed and a todo
\* test line in the order of the input.
C15_Witness ==
    /\ Returned
    /\ lines = <<L_Version, L_OkSkip, L_Ok, L_NotOkTodo>>
    /\ Len(results.Tests) = 3
    /\ results.Tests[1].Skipped
    /\ results.Tests[2].Passed
    /\ results.Tests[3].Todo


\* The trimmed text of the comment lines of the inputs.
CommentText(l) ==
    CASE l = L_Comment -> <<"n", "o", "t", "e">>
      [] l = L_CommentIndented -> <<"m", "o", "r", "e">>
      [] l = L_CommentEmpty -> <<>>

\* The texts of the non-empty comment lines processed in the test stream,
\* in input order, over lines k.. of the input.
RECURSIVE StreamComments(_, _)
StreamComments(in, k) ==
    IF k > Len(in) THEN <<>>
    ELSE (IF /\ ModeAt(in, k) = storeTestMetadata
             /\ in[k] \in {L_Comment, L_CommentIndented}
          THEN <<CommentText(in[k])>> ELSE <<>>)
         \o StreamComments(in, k + 1)

\* The Diagnostics of the tests k.. of a sequence of tests, concatenated.
RECURSIVE AllDiagnostics(_, _)
AllDiagnostics(tests, k) ==
    IF k > Len(tests) THEN <<>>
    ELSE tests[k].Diagnostics \o AllDiagnostics(tests, k + 1)

\* C16: in storeTestMetadata a comment line with non-empty trimmed text is
\* appended to the Diagnostics of the staged test if there is one and to
\* Explanation otherwise; a comment with empty text is discarded; the
\* order of appearance is kept; and a comment line changes no counter.
C16_CommentsStored ==
    /\ [][\A l \in {L_Comment, L_CommentIndented} :
              AtStreamLine(l) =>
                  /\ Counters(results') = Counters(results)
                  /\ results'.Tests = results.Tests
                  /\ IF currentTest # <<>>
                     THEN /\ currentTest' =
                               <<[currentTest[1] EXCEPT
                                    !.Diagnostics = Append(@, CommentText(l))]>>
                          /\ results' = results
                     ELSE /\ currentTest' = <<>>
                          /\ results' =
                               [results EXCEPT
                                    !.Explanation = Append(@, CommentText(l))]]_vars
    /\ [][AtStreamLine(L_CommentEmpty) =>
              results' = results /\ currentTest' = currentTest]_vars
    /\ [](Returned =>
            results.Explanation \o AllDiagnostics(results.Tests, 1)
                = StreamComments(lines, 1))

\* A returned Results whose only test holds two comments in input order
\* in its Diagnostics.
C16_Witness ==
    /\ Returned
    /\ lines = <<L_Version, L_Ok, L_CommentIndented, L_Comment>>
    /\ results.Explanation = <<>>
    /\ Len(results.Tests) = 1
    /\ results.Tests[1].Diagnostics =
          <<CommentText(L_CommentIndented), CommentText(L_Comment)>>


\* The labels of the report lines in the order of the template.
ReportLabels ==
    <<" Overall result: PASS", " Overall result: FAIL", "Total tests run: ",
      " Expected tests: ", "  Missing tests: ", "   Passed tests: ",
      "   Failed tests: ", "  Skipped tests: ", "     TODO tests: ",
      "     Bailed out: ">>

Rank(label) == CHOOSE k \in 1..Len(ReportLabels) : ReportLabels[k] = label

\* The report has a line with this label and this argument.
Reports(label, arg) == \E k \in 1..Len(output) : output[k] = <<label, arg>>

\* The report has no line with this label.
Omits(label) == \A k \in 1..Len(output) : output[k][1] # label

\* The report has the line iff the guard holds.
ReportsIff(guard, label, arg) ==
    IF guard THEN Reports(label, arg) ELSE Omits(label)

\* A counter of at most one digit as %d prints it.
Digit(n) == <<DigitChars[n + 1]>>

\* C17: String yields the 'Overall result' line (PASS iff IsPassing), then,
\* each iff its guard holds and in this order, 'Total tests run',
\* 'Expected tests', 'Missing tests', 'Passed tests', 'Failed tests',
\* 'Skipped tests', 'TODO tests' and 'Bailed out' (with '(no reason
\* given)' for an empty reason), and no other line.
C17_ReportTemplate ==
    pc = "done" =>
        LET r == results
        IN  /\ Len(output) >= 1
            /\ output[1] = (IF IsPassing(r) THEN PassLine ELSE FailLine)
            /\ \A k \in 1..Len(output) :
                  \E n \in 1..Len(ReportLabels) : output[k][1] = ReportLabels[n]
            /\ \A j, k \in 1..Len(output) :
                  j < k => Rank(output[j][1]) < Rank(output[k][1])
            /\ ReportsIff(r.TotalTests = 0 \/ r.PassedTests # r.TotalTests,
                          "Total tests run: ", Digit(r.TotalTests))
            /\ ReportsIff(r.ExpectedTests > 0 /\ r.ExpectedTests # r.TotalTests,
                          " Expected tests: ", Digit(r.ExpectedTests))
            /\ ReportsIff(r.ExpectedTests > 0 /\ r.TotalTests < r.ExpectedTests,
                          "  Missing tests: ", Digit(r.ExpectedTests - r.TotalTests))
            /\ ReportsIff(r.PassedTests > 0, "   Passed tests: ", Digit(r.PassedTests))
            /\ ReportsIff(r.FailedTests > 0, "   Failed tests: ", Digit(r.FailedTests))
            /\ ReportsIff(r.SkippedTests > 0, "  Skipped tests: ", Digit(r.SkippedTests))
            /\ ReportsIff(r.TodoTests > 0, "     TODO tests: ", Digit(r.TodoTests))
            /\ ReportsIff(r.BailOut, "     Bailed out: ",
                          IF r.BailOutReason = <<>>
                          THEN <<"(no reason given)">>
                          ELSE r.BailOutReason)

\* A report with all nine lines, and the bail-out reason printed.
C17_Witness ==
    /\ pc = "done"
    /\ Len(output) = 9
    /\ results.BailOutReason # <<>>


\* The text of a bail-out line after the marker "Bail out!".
AfterMarker(l) == Drop(l, Len(S_BailOut))

\* C18: a bail-out line processed in storeTestMetadata leaves BailOutReason
\* equal to the text after the marker without its leading and trailing
\* whitespace (empty when nothing or only whitespace follows the marker).
C18_ReasonTrimmed ==
    [][\A l \in {L_Bail, L_BailSpace, L_BailReason, L_BailPadded} :
          AtStreamLine(l) =>
              results'.BailOutReason = TrimSpace(AfterMarker(l))]_vars


\* The test lines of the inputs that carry no number.
Unnumbered == {L_Ok, L_NotOk}

\* The TestNumber of the record of a line without a number differs from
\* that of the record of every line with a number.
AbsentNumberDistinctFrom(numbered) ==
    Returned =>
        LET at == StreamTests(lines, 1)
        IN  \A t, u \in 1..Len(at) :
                /\ lines[at[t]] \in Unnumbered
                /\ lines[at[u]] \in numbered
                => results.Tests[t].TestNumber # results.Tests[u].TestNumber

\* C19 (as claimed): the TestNumber of a counted test line without a number
\* differs from -1 and from every parsed number >= 0, the number 0 included.
C19_AbsentNumberDistinct ==
    AbsentNumberDistinctFrom({L_OkZero, L_OkSkip, L_NotOkTodo, L_OkOverflow})

\* C19 (amended): the TestNumber of a counted test line without a number
\* is 0: it differs from -1 and from every parsed number >= 1, and equals
\* the TestNumber of a line with the explicit number 0.
C19_AbsentNumberIsZero ==
    /\ AbsentNumberDistinctFrom({L_OkSkip, L_NotOkTodo, L_OkOverflow})
    /\ Returned =>
          LET at == StreamTests(lines, 1)
          IN  \A t \in 1..Len(at) :
                  /\ lines[at[t]] \in Unnumbered \cup {L_OkZero}
                        => results.Tests[t].TestNumber = 0
                  /\ lines[at[t]] = L_OkOverflow
                        => results.Tests[t].TestNumber = -1

\* A returned Results with the records of 'ok', 'ok 0' and a line with an
\* overflowing number: the first two have the same TestNumber.
C19_Witness ==
    /\ Returned
    /\ lines = <<L_Version, L_Ok, L_OkZero, L_OkOverflow>>
    /\ Len(results.Tests) = 3
    /\ results.Tests[1].TestNumber = results.Tests[2].TestNumber
    /\ results.Tests[3].TestNumber = -1


\* C20: two concurrent invocations of Parse each return the Results they
\* return when run alone, in every interleaving of their iterations; a
\* step of one leaves the variables of the other unchanged, and what an
\* iteration writes is determined by the invocation's own variables and
\* its own line.
C20_InvocationsIndependent ==
    /\ [](Returned => results = Parse(lines))
    /\ [](peer.pc = "returned" => peer.s.results = Parse(peer.lines))
    /\ [][peer' = peer \/ mainVars' = mainVars]_vars
    /\ [][pc = "loop" /\ i <= Len(lines) /\ mainVars' # mainVars
             => Locals' = loopBody(Locals, lines[i])]_vars
    /\ [][peer.pc = "loop" /\ peer.i <= Len(peer.lines) /\ peer' # peer
             => peer'.s = loopBody(peer.s, peer.lines[peer.i])]_vars

\* Both invocations have returned: the first reached its plan of one test
\* and set its foundAllTests, the second counted its own test.
C20_Witness ==
    /\ Returned
    /\ peer.pc = "returned"
    /\ foundAllTests
    /\ ~peer.s.foundAllTests
    /\ peer.s.results.TotalTests = 1
    /\ results.TotalTests = 1


\* The count written on the valid plan lines of the inputs.
PlanCount(l) == CASE l = L_Plan1 -> 1 [] l = L_Plan2 -> 2

\* The positions of the valid plan lines of the input processed in the
\* test stream.
StreamPlans(in) ==
    {k \in 1..Len(in) :
        ModeAt(in, k) = storeTestMetadata /\ in[k] \in {L_Plan1, L_Plan2}}

\* The largest element of a non-empty set of positions.
Last(S) == CHOOSE k \in S : \A j \in S : j <= k

\* C21: every valid plan line processed in storeTestMetadata overwrites
\* ExpectedTests (foundTestPlan stays false), so the ExpectedTests of the
\* returned Results is the count of the last such line of the input.
C21_LastPlanWins ==
    /\ [][\A l \in {L_Plan1, L_Plan2} :
             AtStreamLine(l) => results'.ExpectedTests = PlanCount(l)]_vars
    /\ [](~foundTestPlan)
    /\ [](Returned /\ StreamPlans(lines) # {} =>
            results.ExpectedTests = PlanCount(lines[Last(StreamPlans(lines))]))


\* The five counters of tests run.
RunCounters(r) ==
    <<r.TotalTests, r.PassedTests, r.FailedTests, r.SkippedTests, r.TodoTests>>

\* A Test with no outcome flag, no number, no description and no directive.
IsBlank(t) ==
    /\ FlagsSet(t) = 0
    /\ t.TestNumber = 0
    /\ t.Description = <<>>
    /\ t.DirectiveText = <<>>

\* C22: once foundAllTests is set, a test line processed in
\* storeTestMetadata appends the staged Test to Tests and stages a blank
\* Test, which is appended at the next test line or at the end of the input;
\* and the five counters no longer change.
C22_BlankAfterRunCap ==
    /\ [][pc = "loop" /\ i <= Len(lines) /\ IsStreamTest(lines, i)
             /\ foundAllTests =>
                /\ results'.Tests = results.Tests \o currentTest
                /\ Len(currentTest') = 1
                /\ IsBlank(currentTest'[1])]_vars
    /\ [][pc = "loop" /\ i > Len(lines) /\ foundAllTests =>
             results'.Tests = results.Tests \o currentTest]_vars
    /\ [][foundAllTests => RunCounters(results') = RunCounters(results)]_vars

\* A returned Results whose plan of one test was reached by 'ok': the
\* skipped test line after it left a blank record and no count.
C22_Witness ==
    /\ Returned
    /\ lines = <<L_Version, L_Plan1, L_Ok, L_OkSkip>>
    /\ Len(results.Tests) = 2
    /\ IsBlank(results.Tests[2])
    /\ results.TotalTests = 1
    /\ results.SkippedTests = 0


\* C23: foundAllTests becomes true only in a step that increments
\* TotalTests and makes it equal to ExpectedTests; once true it stays true,
\* also when a later plan line changes ExpectedTests.
C23_RunCapSetOnce ==
    /\ [][~foundAllTests /\ foundAllTests' =>
             /\ results'.TotalTests = results.TotalTests + 1
             /\ results'.TotalTests = results'.ExpectedTests]_vars
    /\ [][foundAllTests => foundAllTests']_vars

\* The flag is still set in a returned Results whose later plan line moved
\* ExpectedTests away from the count.
C23_Witness ==
    /\ Returned
    /\ foundAllTests
    /\ lines = <<L_Version, L_Plan1, L_Ok, L_Plan2>>
    /\ results.TotalTests = 1
    /\ results.ExpectedTests = 2


\* The loop is about to process a line.
AtLine == pc = "loop" /\ i <= Len(lines)

\* The line converts to a version number.
ValidVersion(l) == versionLine(l).ok /\ ~Atoi(versionLine(l).sub[1]).err

\* C24: the parser starts in findVersionString; its state changes only
\* from findVersionString to storeTestMetadata on a version line that
\* converts, from storeTestMetadata to storeYaml on a data-block start line
\* and from storeYaml to storeTestMetadata on a data-block end line, and on
\* each of these lines it does change; the end of the input stops the
\* parser in whichever state it is.
C24_StateTransitions ==
    /\ [](pc = "loop" /\ i = 1 => state = findVersionString)
    /\ [][state' # state =>
             /\ AtLine
             /\ \/ /\ state = findVersionString
                   /\ state' = storeTestMetadata
                   /\ ValidVersion(lines[i])
                \/ /\ state = storeTestMetadata
                   /\ state' = storeYaml
                   /\ yamlStart(lines[i])
                \/ /\ state = storeYaml
                   /\ state' = storeTestMetadata
                   /\ yamlStop(lines[i])]_vars
    /\ [][AtLine /\ state = findVersionString /\ ValidVersion(lines[i])
             => state' = storeTestMetadata]_vars
    /\ [][AtLine /\ state = storeTestMetadata /\ lines[i] = L_YamlStart
             => state' = storeYaml]_vars
    /\ [][AtLine /\ state = storeYaml /\ yamlStop(lines[i])
             => state' = storeTestMetadata]_vars
    /\ [][pc = "loop" /\ i > Len(lines)
             => pc' = "returned" /\ state' = state]_vars

\* Parse has returned inside a data block opened after an earlier block was
\* closed.
C24_Witness ==
    /\ Returned
    /\ lines = <<L_Version, L_YamlStart, L_YamlStop, L_YamlStart>>
    /\ state = storeYaml


\* The positions of the version lines of the input that convert.
ValidVersions(in) == {k \in 1..Len(in) : ValidVersion(in[k])}

First(S) == CHOOSE k \in S : \A j \in S : k <= j

WithoutLines(r) == [r EXCEPT !.Lines = <<>>]

\* C25: an iteration in findVersionString changes no counter, nor
\* ExpectedTests, BailOut, BailOutReason, Tests, Explanation or the staged
\* test, whatever the line; and the returned Results is, apart from Lines,
\* that of the input without the lines before its first version line that
\* converts.
C25_LeadingLinesIgnored ==
    /\ [][AtLine /\ state = findVersionString =>
             /\ Counters(results') = Counters(results)
             /\ results'.BailOut = results.BailOut
             /\ results'.BailOutReason = results.BailOutReason
             /\ results'.Tests = results.Tests
             /\ results'.Explanation = results.Explanation
             /\ currentTest' = currentTest
             /\ foundAllTests' = foundAllTests]_vars
    /\ [](Returned /\ ValidVersions(lines) # {} =>
            WithoutLines(results) =
                WithoutLines(Parse(Drop(lines, First(ValidVersions(lines)) - 1))))

\* A returned Results for an input with a test line and a bail-out line
\* before the version line and a test line after it.
C25_Witness ==
    /\ Returned
    /\ lines = <<L_Ok, L_Bail, L_Version, L_Ok>>
    /\ results.TotalTests = 1
    /\ ~results.BailOut


\* The step on a line of the catalog that is '---' once the whitespace
\* around it is ignored opens a data block.
OpensBlock(catalog) ==
    AtLine /\ state = storeTestMetadata /\ lines[i] \in catalog
        /\ TrimSpace(lines[i]) = S_YamlStart =>
            /\ ~bailOutLine(lines[i]).ok
            /\ ~testLine(lines[i]).ok
            /\ state' = storeYaml

\* The step on a line of the catalog that is '...' once the whitespace
\* around it is ignored closes the data block.
ClosesBlock(catalog) ==
    AtLine /\ state = storeYaml /\ lines[i] \in catalog
        /\ TrimSpace(lines[i]) = S_YamlStop =>
            state' = storeTestMetadata

\* C26: a line that is '---' apart from leading and trailing whitespace
\* opens a data block when processed in storeTestMetadata, and a line that
\* is '...' apart from leading and trailing whitespace closes it when
\* processed in storeYaml, whether indented, followed by whitespace or both.
C26_DelimitersTrimmed ==
    /\ [][OpensBlock(DelimiterLines)]_vars
    /\ [][ClosesBlock(DelimiterLines)]_vars


\* The local variables of Parse when it is about to process line k.
RECURSIVE LocalsAt(_, _)
LocalsAt(in, k) ==
    IF k = 1 THEN NewLocals(in) ELSE loopBody(LocalsAt(in, k - 1), in[k - 1])

\* The test lines of the input processed in the test stream with
\* foundAllTests set.
PastRunCap(in) ==
    {k \in 1..Len(in) : IsStreamTest(in, k) /\ LocalsAt(in, k).foundAllTests}

\* The number of Tests with each flag.
NumPassed(tests) == Cardinality({t \in 1..Len(tests) : tests[t].Passed})

NumFailed(tests) == Cardinality({t \in 1..Len(tests) : tests[t].Failed})

NumSkipped(tests) == Cardinality({t \in 1..Len(tests) : tests[t].Skipped})

NumTodo(tests) == Cardinality({t \in 1..Len(tests) : tests[t].Todo})

\* C27: in the returned Results the number of Tests with Passed set is
\* PassedTests, and likewise for Failed, Skipped and Todo; TotalTests is at
\* most Len(Tests), and the difference is the number of test lines
\* processed in the test stream after foundAllTests was set.
C27_TestsMatchCounters ==
    Returned =>
        /\ NumPassed(results.Tests) = results.PassedTests
        /\ NumFailed(results.Tests) = results.FailedTests
        /\ NumSkipped(results.Tests) = results.SkippedTests
        /\ NumTodo(results.Tests) = results.TodoTests
        /\ results.TotalTests <= Len(results.Tests)
        /\ Len(results.Tests) - results.TotalTests
              = Cardinality(PastRunCap(lines))

\* A returned Results with one failed test counted and one more record than
\* tests counted.
C27_Witness ==
    /\ Returned
    /\ lines = <<L_Version, L_Plan1, L_NotOk, L_OkSkip>>
    /\ results.FailedTests = 1
    /\ results.TotalTests = 1
    /\ Len(results.Tests) = 2


\* The number written on the version lines of the inputs that convert.
VersionNumber(l) == CASE l = L_Version -> 13 [] l = L_Version12 -> 12

\* C28: once the parser has left findVersionString TapVersion no longer
\* changes; a version line met in storeTestMetadata, valid or overflowing,
\* changes nothing, and the returned TapVersion is the number of the first
\* version line of the input that converts.
C28_FirstVersionWins ==
    /\ [][state # findVersionString
             => results'.TapVersion = results.TapVersion]_vars
    /\ [][\A l \in {L_Version, L_Version12, L_VersionOverflow} :
             AtStreamLine(l) =>
                 /\ results' = results
                 /\ state' = state
                 /\ currentTest' = currentTest]_vars
    /\ [](Returned /\ ValidVersions(lines) # {} =>
            results.TapVersion
                = VersionNumber(lines[First(ValidVersions(lines))]))

\* A returned Results with version 12 for an input that has a version line
\* with 13 and an overflowing one after its version line.
C28_Witness ==
    /\ Returned
    /\ lines = <<L_Version12, L_Version, L_VersionOverflow, L_Ok>>
    /\ results.TapVersion = 12
    /\ results.TotalTests = 1


\* C29: Parse processes the lines one by one from the first to the last,
\* each once (its local variables before line i are those of lines 1..i-1
\* processed in order), and eventually returns, whichever state it is in
\* when the input ends.
C29_ParseTerminates ==
    /\ [][AtLine => i' = i + 1 /\ lines' = lines]_vars
    /\ [](pc = "loop" => i <= Len(lines) + 1 /\ Locals = LocalsAt(lines, i))
    /\ [][pc = "loop" /\ i > Len(lines) => pc' = "returned"]_vars
    /\ (pc = "loop" ~> Returned)

\* Parse has returned after the last line of an input whose data block is
\* never closed.
C29_Witness ==
    /\ Returned
    /\ lines = <<L_Version, L_Ok, L_YamlStart, L_Ok>>
    /\ state = storeYaml
    /\ i = Len(lines) + 1

====
